---- MODULE Spec2Model ----
(***************************************************************************)
(* Model of twitter_video_bot: the URL normaliser, the variant resolver,   *)
(* the cache key mapper (pure functions) and the two message handlers of   *)
(* bot/main.py working on the shared download directory, the in-memory     *)
(* CONTEXT map and the statistics table.                                   *)
(*                                                                         *)
(* Strings are sequences of tokens; a token stands for the literal text    *)
(* written in it, so <<"mobile.", "twitter.com">> is "mobile.twitter.com". *)
(***************************************************************************)
EXTENDS Integers, Sequences, FiniteSets, TLC

VARIABLES
    call,       \* pure-function specifications: which step has been applied
    input,      \* pure-function specifications: the argument drawn by Init
    output,     \* pure-function specifications: the value(s) computed so far
    pc,         \* handle_quality_choice: position of each callback task
    sel,        \* handle_quality_choice: locals (chat, video_id, label, url, file_path)
    dl,         \* the executor thread running ydl.download for a task, and how it ended
    upc,        \* handle_url: position of each message task
    umsg,       \* handle_url: locals (chat, url, result)
    CONTEXT,    \* main.CONTEXT: (chat id, video id) -> {"url": url}
    fs,         \* the files of settings.download_dir: path -> file
    replies,    \* what each callback task has sent to its user so far
    stats       \* rows of the stats table (db.record_stat)

fnvars == <<call, input, output>>
botvars == <<pc, sel, dl, upc, umsg, CONTEXT, fs, replies, stats>>
vars == <<call, input, output, pc, sel, dl, upc, umsg, CONTEXT, fs, replies, stats>>

(***************************************************************************)
(* Bounds of the model.                                                    *)
(***************************************************************************)
MaxUrlLen == 4      \* tokens in a raw URL handed to normalize_twitter_url
MaxIdLen == 2       \* tokens in a video id / quality label handed to build_cache_key
MaxFormats == 3     \* formats in the metadata the engine returns
NumReq == 2         \* quality-selection callbacks handled by the process
NumUrl == 2         \* URL messages handled by the process

(***************************************************************************)
(* Python str helpers over token sequences.                                *)
(***************************************************************************)
RECURSIVE SeqsUpTo(_, _)
SeqsUpTo(S, n) ==
    IF n = 0 THEN {<<>>}
    ELSE LET shorter == SeqsUpTo(S, n - 1)
         IN  shorter \cup {Append(s, x) : s \in {t \in shorter : Len(t) = n - 1}, x \in S}

StartsWith(s, p) == Len(p) <= Len(s) /\ SubSeq(s, 1, Len(p)) = p

\* `p in s`
Contains(s, p) == \E i \in 0..(Len(s) - Len(p)) : SubSeq(s, i + 1, i + Len(p)) = p

\* s.replace(old, new): every non-overlapping occurrence, left to right
RECURSIVE Replace(_, _, _)
Replace(s, old, new) ==
    IF Len(s) < Len(old) THEN s
    ELSE IF StartsWith(s, old)
         THEN new \o Replace(SubSeq(s, Len(old) + 1, Len(s)), old, new)
         ELSE <<Head(s)>> \o Replace(Tail(s), old, new)

\* s.strip(): leading and trailing whitespace removed
RECURSIVE LStrip(_)
LStrip(s) == IF s # <<>> /\ Head(s) = " " THEN LStrip(Tail(s)) ELSE s

RECURSIVE RStrip(_)
RStrip(s) == IF s # <<>> /\ s[Len(s)] = " " THEN RStrip(SubSeq(s, 1, Len(s) - 1)) ELSE s

Strip(s) == RStrip(LStrip(s))

(***************************************************************************)
(* downloader.normalize_twitter_url                                        *)
(***************************************************************************)
MOBILE_TWITTER == <<"mobile.", "twitter.com">>
TWITTER == <<"twitter.com">>
X_COM_SLASH == <<"x.com/">>
T_CO_SLASH == <<"t.co/">>
TWITTER_SLASH == <<"twitter.com", "/">>

normalize_twitter_url(url) ==
    LET u1 == Strip(url)
        u2 == Replace(u1, MOBILE_TWITTER, TWITTER)
        u3 == IF Contains(u2, X_COM_SLASH) /\ ~Contains(u2, TWITTER)
              THEN Replace(u2, X_COM_SLASH, TWITTER_SLASH) ELSE u2
        u4 == IF Contains(u3, T_CO_SLASH) /\ ~Contains(u3, TWITTER)
              THEN Replace(u3, T_CO_SLASH, TWITTER_SLASH) ELSE u3
    IN  u4

\* the tokens raw URLs are made of
UrlTokens == {"https://", "mobile.", "twitter.com", "x.com/", "t.co/", "/", "a", " "}
RawUrls == SeqsUpTo(UrlTokens, MaxUrlLen)

(***************************************************************************)
(* cache.build_cache_key, cache.get_cached_file_path                       *)
(***************************************************************************)
\* hashlib.sha256(base).hexdigest()[:32], taken to be collision-free: the
\* digest of a byte string is modelled as that byte string under a tag.
sha256_hex32(base) == <<"sha256">> \o base

\* mutant: the ":" between id and label left out
build_cache_key_no_separator(video_id, quality_label) ==
    sha256_hex32(video_id \o quality_label)

build_cache_key(video_id, quality_label) ==
    sha256_hex32(video_id \o <<":">> \o quality_label)

\* os.path.join(cache_dir, f"{cache_key}.mp4"); there is one cache_dir
\* (settings.download_dir), so a path is a base name and an extension.
get_cached_file_path(cache_key) == [base |-> cache_key, ext |-> "mp4"]

\* the tokens video ids and quality labels are made of in SpecKey
IdTokens == {"1", "p", ":"}
IdStrings == SeqsUpTo(IdTokens, MaxIdLen)

(***************************************************************************)
(* downloader.extract_info / downloader.extract_variants                   *)
(*                                                                         *)
(* A numeric field of the engine's metadata that is missing (None) is 0:   *)
(* the code reads height, filesize and filesize_approx only through        *)
(* truthiness ("not height", "a or b", "x or 0").  A missing vcodec is "". *)
(***************************************************************************)
QUALITY_ORDER == << <<"1080">>, <<"720">>, <<"480">>, <<"360">>, <<"240">> >>

\* str(height) for the heights of the model
DecimalText(h) ==
    CASE h = 1080 -> "1080" [] h = 720 -> "720" [] h = 480 -> "480"
      [] h = 360 -> "360"   [] h = 240 -> "240" [] h = 144 -> "144"
      [] h = 2160 -> "2160" [] OTHER -> "0"

\* the tokens c.isdigit() keeps
DigitTokens == {"1080", "720", "480", "360", "240", "144", "2160", "0"}

IsVideoFormat(f) == f.vcodec # "" /\ f.vcodec # "none" /\ f.ext \in {"mp4", "webm"}

\* lines 84-87: the formats with a video codec and an mp4/webm container
video_formats_of(info) == SelectSeq(info.formats, IsVideoFormat)

\* line 81
is_gif_of(info) == info.is_animated_gif \/ info.animated_gif

\* mutant: the animated-gif flag tested before the formats
media_type_of_gif_first(info) ==
    IF is_gif_of(info) THEN "gif"
    ELSE IF video_formats_of(info) # <<>> THEN "video"
    ELSE IF info.thumbnails \/ info.media_urls THEN "photo"
    ELSE "none"

\* lines 89-95
media_type_of(info) ==
    IF video_formats_of(info) # <<>> THEN "video"
    ELSE IF is_gif_of(info) THEN "gif"
    ELSE IF info.thumbnails \/ info.media_urls THEN "photo"
    ELSE "none"

\* lines 72-76: a playlist-like result is replaced by its first entry
first_entry(info) == IF info.entries # <<>> THEN info.entries[1] ELSE info

\* extract_info: the engine's answer `raw` is NoInfo (None) or a metadata record
NoInfo == [none |-> TRUE]
extract_info(raw) ==
    IF raw = NoInfo
    THEN [error |-> "Could not read post or URL is invalid."]
    ELSE LET info == first_entry(raw)
         IN  [error |-> "",
              info |-> info,
              media_type |-> media_type_of(info),
              video_formats |-> video_formats_of(info)]

\* lines 139-146: the VideoVariant built from one format
VideoVariant(f) ==
    [format_id |-> f.format_id,
     quality_label |-> <<DecimalText(f.height), "p">>,
     ext |-> f.ext,
     filesize |-> IF f.filesize # 0 THEN f.filesize ELSE f.filesize_approx]

\* lines 134-147: formats without a height are skipped
RECURSIVE to_variants(_)
to_variants(formats) ==
    IF formats = <<>> THEN <<>>
    ELSE IF Head(formats).height = 0 THEN to_variants(Tail(formats))
    ELSE <<VideoVariant(Head(formats))>> \o to_variants(Tail(formats))

\* mutant: >= for >, so that a later format of equal size wins
replaces_existing_on_tie(v, existing) == v.filesize >= existing.filesize

\* line 156: does v replace the entry already kept for its label
replaces_existing(v, existing) == v.filesize > existing.filesize

\* lines 150-157: best_by_label, a dict, as the sequence of its values in
\* insertion order (an assignment to an existing key keeps its position)
RECURSIVE dedup(_, _)
dedup(variants, best_by_label) ==
    IF variants = <<>> THEN best_by_label
    ELSE LET v == Head(variants)
             at == {i \in 1..Len(best_by_label) :
                        best_by_label[i].quality_label = v.quality_label}
         IN  IF at = {}
             THEN dedup(Tail(variants), Append(best_by_label, v))
             ELSE LET i == CHOOSE j \in at : TRUE
                  IN  IF replaces_existing(v, best_by_label[i])
                      THEN dedup(Tail(variants), [best_by_label EXCEPT ![i] = v])
                      ELSE dedup(Tail(variants), best_by_label)

\* lines 160-163
order_score(quality_label) ==
    LET num == SelectSeq(quality_label, LAMBDA c : c \in DigitTokens)
        at == {i \in 1..Len(QUALITY_ORDER) : QUALITY_ORDER[i] = num}
    IN  IF at # {} THEN (CHOOSE i \in at : TRUE) - 1 ELSE Len(QUALITY_ORDER)

\* mutant: the filesize not negated, so that equal ranks sort smallest first
sort_key_ascending_size(v) == <<order_score(v.quality_label), v.filesize>>

sort_key(v) == <<order_score(v.quality_label), 0 - v.filesize>>

\* Python's tuple comparison a <= b
TupleLE(a, b) == a[1] < b[1] \/ (a[1] = b[1] /\ a[2] <= b[2])

\* sorted(values, key=sort_key): a stable sort
RECURSIVE sorted(_)
sorted(s) ==
    IF s = <<>> THEN <<>>
    ELSE LET front == sorted(SubSeq(s, 1, Len(s) - 1))
             x == s[Len(s)]
             n == Cardinality({i \in 1..Len(front) : TupleLE(sort_key(front[i]), sort_key(x))})
         IN  SubSeq(front, 1, n) \o <<x>> \o SubSeq(front, n + 1, Len(front))

\* extract_variants, given what extract_info returned
extract_variants(data) ==
    IF data.error # "" THEN [error |-> data.error]
    ELSE [error |-> "",
          video_id |-> IF data.info.id # <<>> THEN data.info.id ELSE <<"video">>,
          variants |-> sorted(dedup(to_variants(data.video_formats), <<>>)),
          media_type |-> data.media_type]

\* main.py lines 43-54, 67: what handle_url tells the user about a result
url_reply(result) ==
    IF result.error # "" THEN "An error occurred while fetching video info"
    ELSE IF result.variants = <<>>
         THEN IF result.media_type = "photo" THEN "This post contains photos, not videos."
              ELSE IF result.media_type = "gif"
                   THEN "This post contains a GIF, which is not currently supported."
                   ELSE "This post does not contain a video."
    ELSE "Choose video quality:"

\* mutant: the test of the variant list left out
shows_options_on_any_result(result) == result.error = ""

\* main.py lines 41-54: handle_url goes on to the quality buttons when
\* extract_variants did not raise and returned variants
shows_options(result) == result.error = "" /\ result.variants # <<>>

\* main.py line 73: CONTEXT[ctx_key] = {"url": url}
\* mutant: the map replaced by one holding the new entry only
store_context_reset(context, ctx_key, url) == [q \in {ctx_key} |-> [url |-> url]]

store_context(context, ctx_key, url) ==
    [q \in DOMAIN context \cup {ctx_key} |-> IF q = ctx_key THEN [url |-> url] ELSE context[q]]

(***************************************************************************)
(* The engine's answers drawn by SpecResolve.                              *)
(***************************************************************************)
Format(i, vcodec, ext, height, size) ==
    [format_id |-> <<"f", i>>, vcodec |-> vcodec, ext |-> ext, height |-> height,
     filesize |-> size[1], filesize_approx |-> size[2]]

Info(id, formats, thumbnails, media_urls, is_animated_gif, animated_gif, entries) ==
    [id |-> id, formats |-> formats, thumbnails |-> thumbnails, media_urls |-> media_urls,
     is_animated_gif |-> is_animated_gif, animated_gif |-> animated_gif, entries |-> entries]

Heights == {0, 1080, 360, 240, 144, 2160}
\* <<filesize, filesize_approx>>
Sizes == {<<0, 0>>, <<1, 2>>, <<0, 2>>}

\* the format the engine may list as number i of a post whose formats are all
\* playable: the inputs of deduplication and ranking
RankedFormats(i) == {Format(i, "avc1", "mp4", h, sz) : h \in Heights, sz \in Sizes}

\* the format the engine may list as number i of a post of any media kind:
\* the inputs of classification
MixedFormats(i) ==
    {Format(i, vcodec, ext, h, <<3, 0>>) :
        vcodec \in {"", "none", "avc1"}, ext \in {"mp4", "webm", "m3u8"}, h \in {0, 720}}

\* a post without formats yet: thumbnails, media_urls and the two gif flags
EmptyInfos ==
    {Info(<<"42">>, <<>>, fl[1], fl[2], fl[3], fl[4], <<>>) :
        fl \in BOOLEAN \X BOOLEAN \X BOOLEAN \X BOOLEAN}

\* a playlist-like answer and an answer without an id
OddInfos ==
    {Info(<<>>, <<>>, FALSE, FALSE, TRUE, FALSE,
          <<Info(<<"43">>, <<Format(1, "avc1", "mp4", 720, <<1, 0>>)>>,
                 TRUE, FALSE, FALSE, FALSE, <<>>)>>),
     Info(<<>>, <<Format(1, "avc1", "webm", 480, <<0, 0>>)>>, FALSE, FALSE, FALSE, FALSE, <<>>)}

\* the formats the engine may add to the answer `info` it is assembling: up
\* to MaxFormats playable ones for a post without flags, or up to
\* MaxFormats - 1 of any kind
NextFormats(info) ==
    LET n == Len(info.formats)
        plain == ~(info.thumbnails \/ info.media_urls \/ info.is_animated_gif
                       \/ info.animated_gif)
        ranked == \A i \in 1..n : info.formats[i] \in RankedFormats(i)
        mixed == \A i \in 1..n : info.formats[i] \in MixedFormats(i)
    IN  (IF plain /\ ranked /\ n < MaxFormats THEN RankedFormats(n + 1) ELSE {})
            \cup (IF mixed /\ n < MaxFormats - 1 THEN MixedFormats(n + 1) ELSE {})

(***************************************************************************)
(* State of the handlers before any message arrives (main.py line 135).    *)
(***************************************************************************)
Req == 1..NumReq
Url == 1..NumUrl

Chats == {1001, 1002}
VideoIds == {<<"42">>, <<"43">>}
Labels == {<<"720", "p">>, <<"480", "p">>}
Exts == {"mp4", "webm", "mkv"}
\* the post URLs users send: post 42 under two hosts and under two paths,
\* post 43 under one
PostUrls ==
    {<<"https://", "x.com/", "42">>, <<"https://", "t.co/", "42">>,
     <<"https://", "mobile.", "twitter.com", "/", "i/", "42">>,
     <<"https://", "x.com/", "43">>}

NoSel == [chat |-> 0]
NoMsg == [chat |-> 0]
NoPath == [base |-> <<>>, ext |-> ""]
NoThread == [state |-> "none"]

BotInit ==
    /\ pc = [r \in Req |-> "idle"]
    /\ sel = [r \in Req |-> NoSel]
    /\ dl = [r \in Req |-> NoThread]
    /\ upc = [u \in Url |-> "idle"]
    /\ umsg = [u \in Url |-> NoMsg]
    /\ CONTEXT = <<>>
    /\ fs = <<>>
    /\ replies = [r \in Req |-> <<>>]
    /\ stats = <<>>

(***************************************************************************)
(* SpecNormalize: normalize_twitter_url applied to a raw URL, and applied  *)
(* again to its own result, as handle_url, extract_info,                   *)
(* handle_quality_choice and download_format do along one request.         *)
(***************************************************************************)
InitNormalize ==
    /\ call = "start" /\ input \in RawUrls /\ output = <<>>
    /\ BotInit

Normalize ==
    /\ call = "start"
    /\ call' = "once"
    /\ output' = <<normalize_twitter_url(input)>>
    /\ UNCHANGED <<input, botvars>>

NormalizeAgain ==
    /\ call = "once"
    /\ call' = "twice"
    /\ output' = Append(output, normalize_twitter_url(output[1]))
    /\ UNCHANGED <<input, botvars>>

NextNormalize == Normalize \/ NormalizeAgain
SpecNormalize == InitNormalize /\ [][NextNormalize]_vars

(***************************************************************************)
(* SpecKey: build_cache_key applied to a (video_id, quality_label) pair.   *)
(***************************************************************************)
InitKey ==
    /\ call = "start" /\ input \in IdStrings \X IdStrings /\ output = <<>>
    /\ BotInit

BuildCacheKey ==
    /\ call = "start"
    /\ call' = "done"
    /\ output' = build_cache_key(input[1], input[2])
    /\ UNCHANGED <<input, botvars>>

NextKey == BuildCacheKey
SpecKey == InitKey /\ [][NextKey]_vars

(***************************************************************************)
(* SpecResolve: extract_info, extract_variants and what handle_url does    *)
(* with the result (its reply, its store) on one answer of the engine, for *)
(* one message from chat 1001.                                             *)
(***************************************************************************)
InitResolve ==
    /\ call = "start" /\ input \in {NoInfo} \cup EmptyInfos \cup OddInfos /\ output = <<>>
    /\ BotInit

\* the engine lists one more format in its answer
EngineAddsFormat ==
    /\ call = "start"
    /\ input \in EmptyInfos \/ (input # NoInfo /\ input.id = <<"42">>)
    /\ \E f \in NextFormats(input) :
           input' = [input EXCEPT !.formats = Append(@, f)]
    /\ UNCHANGED <<call, output, botvars>>

ExtractInfo ==
    /\ call = "start"
    /\ call' = "info"
    /\ output' = [data |-> extract_info(input)]
    /\ UNCHANGED <<input, botvars>>

ExtractVariants ==
    /\ call = "info"
    /\ call' = "result"
    /\ output' = [data |-> output.data, result |-> extract_variants(output.data)]
    /\ UNCHANGED <<input, botvars>>

HandleUrlReply ==
    /\ call = "result"
    /\ call' = "replied"
    /\ output' = [data |-> output.data, result |-> output.result,
                  reply |-> url_reply(output.result)]
    /\ UNCHANGED <<input, botvars>>

\* main.py lines 71-73: after the buttons, the context of the chat is stored
HandleUrlStore ==
    /\ call = "replied"
    /\ shows_options(output.result)
    /\ call' = "stored"
    /\ CONTEXT' = store_context(CONTEXT, <<1001, output.result.video_id>>,
                                <<"https://", "twitter.com", "/", "42">>)
    /\ UNCHANGED <<input, output, pc, sel, dl, upc, umsg, fs, replies, stats>>

NextResolve ==
    EngineAddsFormat \/ ExtractInfo \/ ExtractVariants \/ HandleUrlReply \/ HandleUrlStore
SpecResolve == InitResolve /\ [][NextResolve]_vars

(***************************************************************************)
(* The download directory.  A file records which (video, quality) its      *)
(* bytes belong to (the cache key the engine was asked for), whether all   *)
(* its bytes are written, and the engine thread still writing it (0: none).*)
(***************************************************************************)
File(content, complete, writer) ==
    [content |-> content, complete |-> complete, writer |-> writer]

\* os.path.exists
exists(files, p) == p \in DOMAIN files

\* os.remove
remove(files, p) == [q \in DOMAIN files \ {p} |-> files[q]]

\* mutant: the file copied to its new name, the old name left in place
rename_copy(files, src, dst) ==
    [q \in DOMAIN files \cup {dst} |-> IF q = dst THEN files[src] ELSE files[q]]

\* os.rename (the file keeps its bytes and its writer)
rename(files, src, dst) ==
    [q \in (DOMAIN files \ {src}) \cup {dst} |-> IF q = dst THEN files[src] ELSE files[q]]

\* a file created or truncated at p
write(files, p, f) == [q \in DOMAIN files \cup {p} |-> IF q = p THEN f ELSE files[q]]

\* mutant: any file named after the key counts as cached, also one that a
\* download in flight is writing under another extension
is_cached_any_ext(files, cache_key) ==
    IF \E q \in DOMAIN files : q.base = cache_key
    THEN get_cached_file_path(cache_key) ELSE [base |-> <<>>, ext |-> ""]

\* cache.is_cached
is_cached(files, cache_key) ==
    LET file_path == get_cached_file_path(cache_key)
    IN  IF exists(files, file_path) THEN file_path ELSE NoPath

\* download_format lines 216-232, after ydl.download returned: the paths it
\* may return (os.listdir gives the files in any order); none: ValueError
downloaded_file(files, output_basename) ==
    LET named(e) == [base |-> output_basename, ext |-> e]
    IN  IF exists(files, named("mp4")) THEN {named("mp4")}
        ELSE IF exists(files, named("webm")) THEN {named("webm")}
        ELSE IF exists(files, named("mkv")) THEN {named("mkv")}
        ELSE {q \in DOMAIN files : q.ext \in Exts}

\* main.py lines 111-117: the download moved to the cache's file name
promote(files, file_path, expected_path) ==
    IF file_path # expected_path /\ exists(files, file_path)
    THEN rename(IF exists(files, expected_path) THEN remove(files, expected_path) ELSE files,
                file_path, expected_path)
    ELSE files

\* mutant: file_path not set to the new name after the rename
promoted_path_not_updated(files, file_path, expected_path) == file_path

\* main.py line 117: the path the task goes on with
promoted_path(files, file_path, expected_path) ==
    IF file_path # expected_path /\ exists(files, file_path) THEN expected_path ELSE file_path

(***************************************************************************)
(* handle_quality_choice (main.py lines 76-132), one task per callback.    *)
(* A task runs without interruption between two awaits; the engine's       *)
(* download runs in an executor thread beside the event loop.              *)
(***************************************************************************)
Text(t) == [text |-> t, path |-> NoPath, video |-> File(<<>>, FALSE, 0)]
Video(label, path, file) == [text |-> "Quality:", path |-> path, video |-> file]

Delivered(r) == \E i \in 1..Len(replies[r]) : replies[r][i].text = "Quality:"

CacheKeyOf(r) == build_cache_key(sel[r].video_id, sel[r].label)

\* tasks are numbered in the order their updates arrive
QcArrives(r) == pc[r] = "idle" /\ (IF r = 1 THEN TRUE ELSE pc[r - 1] # "idle")
UrlArrives(u) == upc[u] = "idle" /\ (IF u = 1 THEN TRUE ELSE upc[u - 1] # "idle")

\* lines 78-82: callback data that does not split into four parts
QcInvalid(r) ==
    /\ QcArrives(r)
    /\ pc' = [pc EXCEPT ![r] = "done"]
    /\ replies' = [replies EXCEPT ![r] = Append(@, Text("Invalid selection."))]
    /\ UNCHANGED <<sel, dl, upc, umsg, CONTEXT, fs, stats, fnvars>>

\* mutant: the missing context not tested
on_context_unchecked(found) == [text |-> "Downloading...", next |-> "answer"]

\* lines 85-90: the answer given for a context found or not, and where the
\* task goes next
on_context(found) ==
    IF ~found THEN [text |-> "Session expired. Send the URL again.", next |-> "done"]
    ELSE [text |-> "Downloading...", next |-> "answer"]

\* lines 78-90: the callback is parsed and its context looked up
QcSelect(r, chat, video_id, format_id, label) ==
    /\ QcArrives(r)
    /\ LET ctx_key == <<chat, video_id>>
           found == ctx_key \in DOMAIN CONTEXT
           step == on_context(found)
       IN  /\ sel' = [sel EXCEPT ![r] =
                        [chat |-> chat, video_id |-> video_id, format_id |-> format_id,
                         label |-> label,
                         url |-> IF found THEN CONTEXT[ctx_key].url ELSE <<>>,
                         file_path |-> NoPath]]
           /\ replies' = [replies EXCEPT ![r] = Append(@, Text(step.text))]
           /\ pc' = [pc EXCEPT ![r] = step.next]
    /\ UNCHANGED <<dl, upc, umsg, CONTEXT, fs, stats, fnvars>>

\* lines 91-109: the cache is consulted; on a miss the engine is started
QcCheckCache(r) ==
    /\ pc[r] = "answer"
    /\ LET cached == is_cached(fs, CacheKeyOf(r))
       IN  IF cached # NoPath
           THEN /\ sel' = [sel EXCEPT ![r].file_path = cached]
                /\ pc' = [pc EXCEPT ![r] = "send"]
                /\ dl' = dl
           ELSE /\ sel' = [sel EXCEPT ![r].url = normalize_twitter_url(@)]
                /\ pc' = [pc EXCEPT ![r] = "download"]
                /\ dl' = [dl EXCEPT ![r] = [state |-> "running"]]
    /\ UNCHANGED <<upc, umsg, CONTEXT, fs, replies, stats, fnvars>>

(***************************************************************************)
(* ydl.download (downloader.py lines 194-214), the external engine, told   *)
(* to write to <download_dir>/<cache_key>.<ext> and to convert to mp4.     *)
(* What it does with that file name is its own: it may write the file in   *)
(* place or move a finished file there, under any of the extensions        *)
(* download_format looks for, fail at any point, or return without a file. *)
(***************************************************************************)
\* the thread has returned: did the engine write a file of its own
Finished(wrote) == [state |-> "finished", wrote |-> wrote]

\* the thread after run_in_executor's await has resumed the task: nothing
\* runs any more; what it ended with is kept for the record
Joined(thread) ==
    [state |-> "joined", wrote |-> thread.state = "finished" /\ thread.wrote]

DlWritePartial(r, e) ==
    /\ pc[r] = "download" /\ dl[r].state = "running"
    /\ fs' = write(fs, [base |-> CacheKeyOf(r), ext |-> e], File(CacheKeyOf(r), FALSE, r))
    /\ dl' = [dl EXCEPT ![r] = [state |-> "writing"]]
    /\ UNCHANGED <<pc, sel, upc, umsg, CONTEXT, replies, stats, fnvars>>

DlFinishWrite(r) ==
    /\ pc[r] = "download" /\ dl[r].state = "writing"
    /\ fs' = [q \in DOMAIN fs |->
                IF fs[q].writer = r THEN File(fs[q].content, TRUE, 0) ELSE fs[q]]
    /\ dl' = [dl EXCEPT ![r] = Finished(TRUE)]
    /\ UNCHANGED <<pc, sel, upc, umsg, CONTEXT, replies, stats, fnvars>>

DlWriteAtomic(r, e) ==
    /\ pc[r] = "download" /\ dl[r].state = "running"
    /\ fs' = write(fs, [base |-> CacheKeyOf(r), ext |-> e], File(CacheKeyOf(r), TRUE, 0))
    /\ dl' = [dl EXCEPT ![r] = Finished(TRUE)]
    /\ UNCHANGED <<pc, sel, upc, umsg, CONTEXT, replies, stats, fnvars>>

DlReturnNoFile(r) ==
    /\ pc[r] = "download" /\ dl[r].state = "running"
    /\ dl' = [dl EXCEPT ![r] = Finished(FALSE)]
    /\ UNCHANGED <<pc, sel, upc, umsg, CONTEXT, fs, replies, stats, fnvars>>

DlRaise(r) ==
    /\ pc[r] = "download" /\ dl[r].state \in {"running", "writing"}
    /\ fs' = [q \in DOMAIN fs |->
                IF fs[q].writer = r THEN File(fs[q].content, fs[q].complete, 0) ELSE fs[q]]
    /\ dl' = [dl EXCEPT ![r] = [state |-> "raised"]]
    /\ UNCHANGED <<pc, sel, upc, umsg, CONTEXT, replies, stats, fnvars>>

\* downloader.py lines 216-232 and main.py lines 110-117: the engine has
\* returned, its file is looked for and moved to the cache's file name
QcPromote(r) ==
    /\ pc[r] = "download" /\ dl[r].state = "finished"
    /\ \E file_path \in downloaded_file(fs, CacheKeyOf(r)) :
           LET expected_path == get_cached_file_path(CacheKeyOf(r))
           IN  /\ fs' = promote(fs, file_path, expected_path)
               /\ sel' = [sel EXCEPT ![r].file_path =
                                        promoted_path(fs, file_path, expected_path)]
    /\ pc' = [pc EXCEPT ![r] = "send"]
    /\ dl' = [dl EXCEPT ![r] = Joined(@)]
    /\ UNCHANGED <<upc, umsg, CONTEXT, replies, stats, fnvars>>

\* main.py lines 118-120: the engine raised, or download_format found no
\* file at all (line 230)
QcDownloadError(r) ==
    /\ pc[r] = "download"
    /\ \/ dl[r].state = "raised"
       \/ dl[r].state = "finished" /\ downloaded_file(fs, CacheKeyOf(r)) = {}
    /\ replies' = [replies EXCEPT ![r] = Append(@, Text("An error occurred while downloading"))]
    /\ pc' = [pc EXCEPT ![r] = "done"]
    /\ dl' = [dl EXCEPT ![r] = Joined(@)]
    /\ UNCHANGED <<sel, upc, umsg, CONTEXT, fs, stats, fnvars>>

\* mutant: the statistic recorded whether or not the video went out
after_send_always_stat(delivered) == "stat"

\* lines 124-130: record_stat is reached only when answer_video returned
after_send(delivered) == IF delivered THEN "stat" ELSE "done"

\* lines 122-126: answer_video; it raises when the transport fails (~ok) or
\* the file is not there, and the exception ends the task
QcSendVideo(r, ok) ==
    /\ pc[r] = "send"
    /\ LET delivered == ok /\ exists(fs, sel[r].file_path)
       IN  /\ replies' = [replies EXCEPT ![r] =
                            IF delivered
                            THEN Append(@, Video(sel[r].label, sel[r].file_path,
                                                 fs[sel[r].file_path]))
                            ELSE @]
           /\ pc' = [pc EXCEPT ![r] = after_send(delivered)]
    /\ UNCHANGED <<sel, dl, upc, umsg, CONTEXT, fs, stats, fnvars>>

\* db.record_stat: the inserted row
StatRow(r) ==
    [user_id |-> sel[r].chat, url |-> sel[r].url, video_id |-> sel[r].video_id,
     quality |-> sel[r].label]

\* lines 128-132: record_stat, whose exception (~ok) is passed over
QcRecordStat(r, ok) ==
    /\ pc[r] = "stat"
    /\ stats' = IF ok THEN Append(stats, StatRow(r)) ELSE stats
    /\ pc' = [pc EXCEPT ![r] = "done"]
    /\ UNCHANGED <<sel, dl, upc, umsg, CONTEXT, fs, replies, fnvars>>

(***************************************************************************)
(* handle_url (main.py lines 30-73), one task per text message.            *)
(***************************************************************************)
\* the video id the engine gives a post: the status number ending its URL
PostId(url) == <<url[Len(url)]>>

\* the engine's possible answers for a post URL
EngineAnswersFor(url) ==
    {NoInfo,
     Info(PostId(url), <<>>, TRUE, FALSE, FALSE, FALSE, <<>>),
     Info(PostId(url),
          <<Format(1, "avc1", "mp4", 480, <<2, 0>>), Format(2, "avc1", "mp4", 720, <<5, 0>>)>>,
          TRUE, FALSE, FALSE, FALSE, <<>>)}

\* lines 32-35: no URL in the text
UrlInvalid(u, chat) ==
    /\ UrlArrives(u)
    /\ umsg' = [umsg EXCEPT ![u] = [chat |-> chat, reply |-> "Invalid or unsupported link."]]
    /\ upc' = [upc EXCEPT ![u] = "done"]
    /\ UNCHANGED <<pc, sel, dl, CONTEXT, fs, replies, stats, fnvars>>

\* lines 32-42: the URL is normalized and handed to extract_variants
UrlReceive(u, chat, raw) ==
    /\ UrlArrives(u)
    /\ umsg' = [umsg EXCEPT ![u] = [chat |-> chat, url |-> normalize_twitter_url(raw),
                                   reply |-> "Checking the post..."]]
    /\ upc' = [upc EXCEPT ![u] = "extract"]
    /\ UNCHANGED <<pc, sel, dl, CONTEXT, fs, replies, stats, fnvars>>

\* lines 42-58: the engine has answered
UrlExtract(u) ==
    /\ upc[u] = "extract"
    /\ \E answer \in EngineAnswersFor(umsg[u].url) :
           LET result == extract_variants(extract_info(answer))
           IN  IF ~shows_options(result)
               THEN /\ umsg' = [umsg EXCEPT ![u] = [chat |-> @.chat, url |-> @.url,
                                                   reply |-> url_reply(result)]]
                    /\ upc' = [upc EXCEPT ![u] = "done"]
               ELSE /\ umsg' = [umsg EXCEPT ![u] = [chat |-> @.chat, url |-> @.url,
                                                   reply |-> @.reply, result |-> result]]
                    /\ upc' = [upc EXCEPT ![u] = "show"]
    /\ UNCHANGED <<pc, sel, dl, CONTEXT, fs, replies, stats, fnvars>>

\* lines 56-69: the quality buttons are put on the screen
UrlShowOptions(u) ==
    /\ upc[u] = "show"
    /\ umsg' = [umsg EXCEPT ![u] = [chat |-> @.chat, url |-> @.url,
                                   reply |-> url_reply(@.result), result |-> @.result]]
    /\ upc' = [upc EXCEPT ![u] = "store"]
    /\ UNCHANGED <<pc, sel, dl, CONTEXT, fs, replies, stats, fnvars>>

\* lines 71-73: the task resumes after edit_text and stores the context
UrlStoreContext(u) ==
    /\ upc[u] = "store"
    /\ CONTEXT' = store_context(CONTEXT, <<umsg[u].chat, umsg[u].result.video_id>>,
                                umsg[u].url)
    /\ upc' = [upc EXCEPT ![u] = "done"]
    /\ UNCHANGED <<pc, sel, dl, umsg, fs, replies, stats, fnvars>>

(***************************************************************************)
(* Spec: the bot process, any number of tasks interleaved.                 *)
(***************************************************************************)
FormatIds == {<<"f", 1>>}

Init ==
    /\ call = "bot" /\ input = <<>> /\ output = <<>>
    /\ BotInit

Next ==
    \/ \E r \in Req : QcInvalid(r)
    \/ \E r \in Req, chat \in Chats, video_id \in VideoIds, format_id \in FormatIds,
          label \in Labels : QcSelect(r, chat, video_id, format_id, label)
    \/ \E r \in Req : QcCheckCache(r)
    \/ \E r \in Req, e \in Exts : DlWritePartial(r, e)
    \/ \E r \in Req : DlFinishWrite(r)
    \/ \E r \in Req, e \in Exts : DlWriteAtomic(r, e)
    \/ \E r \in Req : DlReturnNoFile(r)
    \/ \E r \in Req : DlRaise(r)
    \/ \E r \in Req : QcPromote(r)
    \/ \E r \in Req : QcDownloadError(r)
    \/ \E r \in Req, ok \in BOOLEAN : QcSendVideo(r, ok)
    \/ \E r \in Req, ok \in BOOLEAN : QcRecordStat(r, ok)
    \/ \E u \in Url, chat \in Chats : UrlInvalid(u, chat)
    \/ \E u \in Url, chat \in Chats, raw \in PostUrls : UrlReceive(u, chat, raw)
    \/ \E u \in Url : UrlExtract(u)
    \/ \E u \in Url : UrlShowOptions(u)
    \/ \E u \in Url : UrlStoreContext(u)

Spec == Init /\ [][Next]_vars

(***************************************************************************)
(* Claims about the pure functions.                                        *)
(***************************************************************************)

\* C5 (SpecNormalize): normalize_twitter_url is idempotent on every input,
\* normalize(normalize(u)) = normalize(u), and the mobile.twitter.com, x.com
\* and t.co forms of one post normalize to the same twitter.com string.
C5_NormalizeIdempotent ==
    /\ call = "twice" => output[2] = output[1]
    /\ (call # "start" /\ input \in {<<"mobile.", "twitter.com", "/", "a">>,
                                     <<"x.com/", "a">>, <<"t.co/", "a">>})
           => output[1] = <<"twitter.com", "/", "a">>

\* C6 (SpecKey), as stated: two (content_id, quality_label) pairs get the
\* same key only when the pairs are equal.
C6_KeyInjective ==
    call = "done" =>
        \A c2 \in IdStrings, q2 \in IdStrings :
            <<c2, q2>> # input => build_cache_key(c2, q2) # output

\* C6 (SpecKey), amended: two pairs whose content ids contain no ":" get the
\* same key only when the pairs are equal.
HasColon(s) == \E i \in 1..Len(s) : s[i] = ":"

C6_KeyInjectiveColonFreeId ==
    (call = "done" /\ ~HasColon(input[1])) =>
        \A c2 \in IdStrings, q2 \in IdStrings :
            (~HasColon(c2) /\ <<c2, q2>> # input) => build_cache_key(c2, q2) # output

\* C6 witness: a key has been built for a colon-free id and a label that
\* itself contains ":".
C6_Witness ==
    /\ call = "done"
    /\ input = << <<"1">>, <<":", "p">> >>
    /\ output = build_cache_key(<<"1">>, <<":", "p">>)

\* What the claims about extract_variants speak of: the post resolved, its
\* candidate encodings (playable formats with a height), their labels, sizes.
ResolvedPost == IF input.entries # <<>> THEN input.entries[1] ELSE input
Playable(f) == f.vcodec \notin {"", "none"} /\ f.ext \in {"mp4", "webm"}
Candidates ==
    {i \in 1..Len(ResolvedPost.formats) :
        Playable(ResolvedPost.formats[i]) /\ ResolvedPost.formats[i].height # 0}
CandLabel(i) == <<DecimalText(ResolvedPost.formats[i].height), "p">>
CandSize(i) ==
    LET f == ResolvedPost.formats[i]
    IN  IF f.filesize # 0 THEN f.filesize ELSE f.filesize_approx
Resolved == call \in {"result", "replied"} /\ input # NoInfo

\* C7 (SpecResolve): the resolved list holds exactly one variant per label of
\* the candidates, and it is the first candidate of maximum filesize (missing
\* = 0) among the candidates with that label.
C7_DedupKeepsFirstLargest ==
    Resolved =>
        LET vs == output.result.variants
        IN  /\ \A i, j \in 1..Len(vs) :
                   vs[i].quality_label = vs[j].quality_label => i = j
            /\ \A c \in Candidates : \E i \in 1..Len(vs) : vs[i].quality_label = CandLabel(c)
            /\ \A i \in 1..Len(vs) :
                   \E c \in Candidates :
                       /\ CandLabel(c) = vs[i].quality_label
                       /\ vs[i].format_id = ResolvedPost.formats[c].format_id
                       /\ vs[i].filesize = CandSize(c)
                       /\ \A d \in Candidates :
                              CandLabel(d) = CandLabel(c) =>
                                  \/ CandSize(d) < CandSize(c)
                                  \/ (CandSize(d) = CandSize(c) /\ d >= c)

\* C7 witness: three candidates share a label, the last two tie at the
\* maximum size, and the resolved list holds the second one.
C7_Witness ==
    /\ Resolved
    /\ Candidates = {1, 2, 3}
    /\ CandLabel(1) = CandLabel(2) /\ CandLabel(2) = CandLabel(3)
    /\ CandSize(1) < CandSize(2) /\ CandSize(2) = CandSize(3)
    /\ Len(output.result.variants) = 1
    /\ output.result.variants[1].format_id = <<"f", 2>>

\* the preference table as the claim states it: 1080, 720, 480, 360, 240,
\* then every other label
TableRank(label) ==
    CASE label = <<"1080", "p">> -> 0 [] label = <<"720", "p">> -> 1
      [] label = <<"480", "p">> -> 2  [] label = <<"360", "p">> -> 3
      [] label = <<"240", "p">> -> 4  [] OTHER -> 5

\* C8 (SpecResolve): the resolved list is ordered by the preference table,
\* recognized labels in table order before all unrecognized ones, equal ranks
\* by descending filesize; heights 360, 1080, 240 resolve to 1080p, 360p, 240p.
C8_RankedByTable ==
    Resolved =>
        LET vs == output.result.variants
        IN  /\ \A i, j \in 1..Len(vs) :
                   i < j =>
                       \/ TableRank(vs[i].quality_label) < TableRank(vs[j].quality_label)
                       \/ /\ TableRank(vs[i].quality_label) = TableRank(vs[j].quality_label)
                          /\ vs[i].filesize >= vs[j].filesize
            /\ (/\ Candidates = {1, 2, 3}
                /\ <<CandLabel(1), CandLabel(2), CandLabel(3)>>
                       = << <<"360", "p">>, <<"1080", "p">>, <<"240", "p">> >>)
                   => [i \in 1..Len(vs) |-> vs[i].quality_label]
                          = << <<"1080", "p">>, <<"360", "p">>, <<"240", "p">> >>

\* C8 witness: an unrecognized label listed first, a recognized one, and a
\* larger unrecognized one have been resolved to recognized, larger, smaller.
C8_Witness ==
    /\ Resolved
    /\ Candidates = {1, 2, 3}
    /\ <<CandLabel(1), CandLabel(2), CandLabel(3)>>
           = << <<"144", "p">>, <<"360", "p">>, <<"2160", "p">> >>
    /\ CandSize(1) < CandSize(3)
    /\ [i \in 1..3 |-> output.result.variants[i].quality_label]
           = << <<"360", "p">>, <<"2160", "p">>, <<"144", "p">> >>

\* C9 (SpecResolve): media_type is "video" if some format has a video codec
\* other than "none" in an mp4 or webm container, else "gif" if the engine
\* flags an animated gif, else "photo" if thumbnails or media URLs are
\* present, else "none"; a photo-only post is a normal result of media_type
\* "photo" with no variants, answered with the photo message.
C9_MediaTypePriority ==
    (call # "start" /\ input # NoInfo) =>
        LET p == ResolvedPost
            video == \E i \in 1..Len(p.formats) : Playable(p.formats[i])
            gif == p.is_animated_gif \/ p.animated_gif
            photo == p.thumbnails \/ p.media_urls
            expected == IF video THEN "video" ELSE IF gif THEN "gif"
                        ELSE IF photo THEN "photo" ELSE "none"
        IN  /\ output.data.error = ""
            /\ output.data.media_type = expected
            /\ call \in {"result", "replied"} =>
                   /\ output.result.error = ""
                   /\ output.result.media_type = expected
                   /\ (~video /\ ~gif /\ photo) => output.result.variants = <<>>
            /\ (call = "replied" /\ ~video /\ ~gif /\ photo) =>
                   output.reply = "This post contains photos, not videos."

\* C9 witness: a post with thumbnails, an audio-only format and no gif flag
\* has been answered as a photo post.
C9_Witness ==
    /\ call = "replied"
    /\ input # NoInfo
    /\ Len(input.formats) = 1 /\ input.formats[1].vcodec = "none"
    /\ input.thumbnails /\ ~input.is_animated_gif /\ ~input.animated_gif
    /\ output.result.media_type = "photo"
    /\ output.result.variants = <<>>
    /\ output.reply = "This post contains photos, not videos."

\* C20 (SpecResolve): when the engine returns no metadata the resolver
\* fails with the extraction error and the user gets the fetch error; when
\* the variant list is empty the user gets the no-video, GIF or photo
\* message; in both cases nothing is stored and no buttons are shown.  A
\* context is stored only after the buttons, for a non-empty variant list,
\* and a non-empty variant list comes with media_type "video".
C20_StoreOnlyForVariants ==
    LET NoVideoTexts == {"This post contains photos, not videos.",
                         "This post contains a GIF, which is not currently supported.",
                         "This post does not contain a video."}
        FetchError == "An error occurred while fetching video info"
    IN  /\ (call # "start" /\ input = NoInfo) =>
               output.data.error = "Could not read post or URL is invalid."
        /\ (call \in {"result", "replied", "stored"} /\ input # NoInfo) =>
               /\ output.result.error = ""
               /\ output.result.variants # <<>> => output.result.media_type = "video"
        /\ call \in {"replied", "stored"} =>
               IF input = NoInfo
               THEN output.result.error # "" /\ output.reply = FetchError
               ELSE IF output.result.variants = <<>>
                    THEN output.reply \in NoVideoTexts
                    ELSE output.reply = "Choose video quality:"
        /\ CONTEXT # <<>> =>
               /\ call = "stored"
               /\ input # NoInfo
               /\ output.result.variants # <<>>
               /\ output.reply = "Choose video quality:"
               /\ DOMAIN CONTEXT = {<<1001, output.result.video_id>>}
        /\ (call = "replied" /\ (input = NoInfo \/ output.result.variants = <<>>)) =>
               ~ENABLED HandleUrlStore

\* C20 witness: a post flagged as an animated gif that also lists a playable
\* format with a height resolved to media_type "video", its buttons were
\* shown and its context stored.
C20_Witness ==
    /\ call = "stored"
    /\ input.is_animated_gif
    /\ Len(output.result.variants) = 1
    /\ output.result.media_type = "video"
    /\ output.reply = "Choose video quality:"
    /\ CONTEXT # <<>>

(***************************************************************************)
(* Claims about the handlers (Spec).                                       *)
(***************************************************************************)
CacheKeys == {build_cache_key(v, q) : v \in VideoIds, q \in Labels}
ExpiredText == "Session expired. Send the URL again."
DownloadErrorText == "An error occurred while downloading"

\* C1 (Spec): whenever a canonical cache path <download_dir>/<key>.mp4
\* exists, it holds a completely written file.
C1_CanonicalFileComplete ==
    \A p \in DOMAIN fs : p.ext = "mp4" => fs[p].complete

\* C2 (Spec): once the canonical file of a key exists (completely written,
\* no engine thread at work on it) it stays, and every selection for that key
\* that consults the cache afterwards is served from that path without the
\* engine being started.
C2_CachedServedFromCache ==
    [][\A k \in CacheKeys :
          (/\ exists(fs, get_cached_file_path(k))
           /\ fs[get_cached_file_path(k)].complete
           /\ fs[get_cached_file_path(k)].writer = 0) =>
              /\ exists(fs', get_cached_file_path(k))
              /\ \A r \in Req :
                     (pc[r] = "answer" /\ pc'[r] # "answer" /\ CacheKeyOf(r) = k) =>
                         /\ pc'[r] = "send"
                         /\ sel'[r].file_path = get_cached_file_path(k)
                         /\ dl'[r] = NoThread]_vars

\* C3 (Spec): when the engine's download raised, the task ends with the
\* download error and no video, and the canonical path of its key then holds
\* no file, or a complete one, or one another download is still writing.
C3_FailedDownloadLeavesNoFile ==
    [][\A r \in Req :
          (pc[r] = "download" /\ dl[r].state = "raised" /\ pc'[r] # "download") =>
              LET p == get_cached_file_path(CacheKeyOf(r))
              IN  /\ pc'[r] = "done"
                  /\ replies'[r][Len(replies'[r])].text = DownloadErrorText
                  /\ \A i \in 1..Len(replies'[r]) : replies'[r][i].text # "Quality:"
                  /\ exists(fs', p) => (fs'[p].complete \/ fs'[p].writer # 0)]_vars

\* C4 (Spec): a selection arriving when CONTEXT holds nothing for its
\* (chat, video id) is answered "Session expired. Send the URL again." and
\* ends there: no engine thread, no change of the download directory, of
\* CONTEXT or of the stats table, no video; a finished task does nothing more.
C4_ExpiredSelectionDoesNothing ==
    [][\A r \in Req :
          /\ (/\ pc[r] = "idle" /\ pc'[r] # "idle" /\ sel'[r] # NoSel
              /\ <<sel'[r].chat, sel'[r].video_id>> \notin DOMAIN CONTEXT) =>
                 /\ pc'[r] = "done"
                 /\ replies'[r] = <<Text(ExpiredText)>>
                 /\ dl' = dl /\ fs' = fs /\ CONTEXT' = CONTEXT /\ stats' = stats
          /\ pc[r] = "done" =>
                 /\ pc'[r] = "done" /\ replies'[r] = replies[r] /\ dl'[r] = dl[r]
                 /\ sel'[r] = sel[r]]_vars

\* C4 witness: a selection was answered as expired while other selections
\* had a context and the download directory holds a file.
C4_Witness ==
    \E r \in Req :
        /\ pc[r] = "done"
        /\ replies[r] = <<Text(ExpiredText)>>
        /\ <<sel[r].chat, sel[r].video_id>> \notin DOMAIN CONTEXT
        /\ CONTEXT # <<>>
        /\ fs # <<>>

\* C10 (Spec): a row is added to stats only by a task whose video has been
\* sent, and the record_stat step, failed or not, leaves what the user was
\* sent, the download directory and CONTEXT as they were and ends the task.
C10_StatAfterDeliveryBestEffort ==
    [][/\ stats' # stats =>
              \E r \in Req :
                  /\ pc[r] = "stat" /\ pc'[r] = "done"
                  /\ replies[r][Len(replies[r])].text = "Quality:"
                  /\ stats' = Append(stats, StatRow(r))
       /\ \A r \in Req :
              (pc[r] = "stat" /\ pc'[r] # "stat") =>
                  /\ pc'[r] = "done"
                  /\ Delivered(r)
                  /\ replies' = replies /\ fs' = fs /\ CONTEXT' = CONTEXT]_vars

\* C10 witness: a task has sent its video and ended although record_stat
\* failed: no row was written.
C10_Witness ==
    \E r \in Req :
        /\ pc[r] = "done"
        /\ Delivered(r)
        /\ replies[r][Len(replies[r])].path = get_cached_file_path(CacheKeyOf(r))
        /\ stats = <<>>

(***************************************************************************)
(* Claims about concurrent selections and the cache directory (Spec).      *)
(***************************************************************************)
\* the engine thread of task r has been started and has not been joined
InFlight(r) == dl[r].state \in {"running", "writing", "finished", "raised"}

\* the engine thread of task r wrote its file, returned, and was joined
DownloadSucceeded(r) == dl[r] = [state |-> "joined", wrote |-> TRUE]

\* tasks r1 and r2 are the only ones that ever started the engine, and they
\* started it for the same cache key
RaceOnKey(r1, r2) ==
    /\ r1 # r2
    /\ dl[r1] # NoThread /\ dl[r2] # NoThread
    /\ CacheKeyOf(r1) = CacheKeyOf(r2)
    /\ \A r3 \in Req \ {r1, r2} : dl[r3] = NoThread

C13_OnlyPromotionWritesCanonical ==
    [][\A k \in CacheKeys :
          LET p == get_cached_file_path(k)
          IN  (exists(fs', p) /\ (~exists(fs, p) \/ fs'[p] # fs[p])) =>
                  \E r \in Req :
                      /\ pc[r] = "download" /\ pc'[r] = "send"
                      /\ CacheKeyOf(r) = k]_vars

\* the quality buttons for (chat, video_id) are on the user's screen: a
\* handle_url task has passed its edit_text with the keyboard
OptionsDisplayed(chat, video_id) ==
    \E u \in Url :
        /\ upc[u] \in {"store", "done"}
        /\ umsg[u].reply = "Choose video quality:"
        /\ umsg[u].chat = chat
        /\ umsg[u].result.video_id = video_id

\* C14 (Spec): a selection arriving for a (chat, video id) whose quality
\* buttons have been displayed finds its context: it is not answered
\* "Session expired".
C14_DisplayedOptionsHaveContext ==
    [][\A r \in Req :
          (/\ pc[r] = "idle" /\ pc'[r] # "idle" /\ sel'[r] # NoSel
           /\ OptionsDisplayed(sel'[r].chat, sel'[r].video_id)) =>
              /\ replies'[r] # <<Text(ExpiredText)>>
              /\ pc'[r] = "answer"]_vars

\* the files named after cache key k that download_format looks for
NamedAfter(files, k) == {q \in DOMAIN files : q.base = k /\ q.ext \in Exts}

\* C15 (Spec): when the engine has returned and the download directory
\* holds no <key>.mp4, .webm or .mkv, the task ends with the download error
\* whatever else the directory holds: no file is renamed and no video sent.
C15_NoFileMeansDownloadFailed ==
    [][\A r \in Req :
          (/\ pc[r] = "download" /\ dl[r].state = "finished" /\ pc'[r] # "download"
           /\ NamedAfter(fs, CacheKeyOf(r)) = {}) =>
              /\ pc'[r] = "done"
              /\ replies'[r] = Append(replies[r], Text(DownloadErrorText))
              /\ fs' = fs]_vars

\* task r, or its engine thread, takes the step
Acts(r) == pc'[r] # pc[r] \/ dl'[r] # dl[r]

\* C16 (Spec): the canonical file <download_dir>/<k>.mp4 of a key k appears,
\* disappears or changes only in a step of a selection for k, or of its
\* engine thread: a selection for another key leaves it as it was.
C16_OtherKeysUntouched ==
    [][\A k \in CacheKeys :
          LET p == get_cached_file_path(k)
          IN  (\/ exists(fs, p) # exists(fs', p)
               \/ (exists(fs, p) /\ exists(fs', p) /\ fs'[p] # fs[p])) =>
                  \E r \in Req : Acts(r) /\ sel[r] # NoSel /\ CacheKeyOf(r) = k]_vars

\* the file download_format returns when <key>.mp4 is not there but another
\* file named after the key is (downloader.py lines 222-225)
OtherName(files, k) ==
    IF exists(files, [base |-> k, ext |-> "webm"]) THEN [base |-> k, ext |-> "webm"]
    ELSE [base |-> k, ext |-> "mkv"]

C18_MissAlwaysDownloads ==
    [][\A r \in Req :
          (/\ pc[r] = "answer" /\ pc'[r] # "answer"
           /\ ~exists(fs, get_cached_file_path(CacheKeyOf(r)))) =>
              /\ pc'[r] = "download"
              /\ dl'[r] = [state |-> "running"]
              /\ fs' = fs]_vars

\* C18 witness: two engine threads are at work for the same cache key at the
\* same time, one of them writing its file.
C18_Witness ==
    \E r1, r2 \in Req :
        /\ r1 # r2
        /\ pc[r1] = "download" /\ pc[r2] = "download"
        /\ dl[r1].state = "writing" /\ dl[r2].state = "running"
        /\ CacheKeyOf(r1) = CacheKeyOf(r2)
        /\ NamedAfter(fs, CacheKeyOf(r1)) # {}

\* C19 (Spec): no step removes an entry of CONTEXT; a selection leaves
\* CONTEXT as it is and, when an entry for its (chat, video id) is there,
\* finds it and goes on with its URL; CONTEXT changes only when a handle_url
\* task stores, which sets the entry of its own (chat, video id) to its URL
\* and leaves every other entry as it was.
C19_ContextOnlyGrows ==
    [][/\ DOMAIN CONTEXT \subseteq DOMAIN CONTEXT'
       /\ \A r \in Req :
              (pc[r] = "idle" /\ pc'[r] # "idle") =>
                  /\ CONTEXT' = CONTEXT
                  /\ (sel'[r] # NoSel
                          /\ <<sel'[r].chat, sel'[r].video_id>> \in DOMAIN CONTEXT) =>
                         /\ pc'[r] = "answer"
                         /\ replies'[r] = <<Text("Downloading...")>>
                         /\ sel'[r].url = CONTEXT[<<sel'[r].chat, sel'[r].video_id>>].url
       /\ CONTEXT' # CONTEXT =>
              \E u \in Url :
                  LET ctx_key == <<umsg[u].chat, umsg[u].result.video_id>>
                  IN  /\ upc[u] = "store" /\ upc'[u] = "done"
                      /\ DOMAIN CONTEXT' = DOMAIN CONTEXT \cup {ctx_key}
                      /\ CONTEXT'[ctx_key] = [url |-> umsg[u].url]
                      /\ \A k \in DOMAIN CONTEXT \ {ctx_key} : CONTEXT'[k] = CONTEXT[k]]_vars

\* C19 witness: two URL messages resolved to the same (chat, video id) under
\* different URLs, the second store replaced the first one's URL, and two
\* selections of different qualities for that pair both found a context.
C19_Witness ==
    /\ upc[1] = "done" /\ upc[2] = "done"
    /\ umsg[1].reply = "Choose video quality:" /\ umsg[2].reply = "Choose video quality:"
    /\ umsg[1].chat = umsg[2].chat
    /\ umsg[1].result.video_id = umsg[2].result.video_id
    /\ umsg[1].url # umsg[2].url
    /\ DOMAIN CONTEXT = {<<umsg[1].chat, umsg[1].result.video_id>>}
    /\ CONTEXT[<<umsg[1].chat, umsg[1].result.video_id>>].url = umsg[2].url
    /\ \A r \in {1, 2} :
           /\ pc[r] # "idle" /\ sel[r] # NoSel
           /\ <<sel[r].chat, sel[r].video_id>> = <<umsg[1].chat, umsg[1].result.video_id>>
           /\ replies[r][1] = Text("Downloading...")
    /\ sel[1].label # sel[2].label

(***************************************************************************)
(* SpecLive: the bot process under the scheduling asyncio gives: a task    *)
(* whose await has completed is resumed, and a Telegram call returns or    *)
(* raises.  Nothing is assumed of the engine: the code puts no timeout     *)
(* around run_in_executor (downloader.py lines 67 and 214), so the thread  *)
(* may stay in ydl.extract_info or ydl.download for ever.                  *)
(***************************************************************************)
LoopFairness ==
    /\ \A r \in Req :
           /\ WF_vars(QcCheckCache(r))
           /\ WF_vars(QcPromote(r))
           /\ WF_vars(QcDownloadError(r))
           /\ WF_vars(\E ok \in BOOLEAN : QcSendVideo(r, ok))
           /\ WF_vars(\E ok \in BOOLEAN : QcRecordStat(r, ok))
    /\ \A u \in Url :
           /\ WF_vars(UrlShowOptions(u))
           /\ WF_vars(UrlStoreContext(u))

SpecLive == Init /\ [][Next]_vars /\ LoopFairness

\* C12 (SpecLive): every selection and every URL message that has started
\* eventually ends with an outcome shown to the user, also when the engine
\* never answers: the calls to the engine are cut off by a timeout.
C12_EveryRequestEnds ==
    /\ \A r \in Req : (pc[r] # "idle") ~> (pc[r] = "done")
    /\ \A u \in Url : (upc[u] # "idle") ~> (upc[u] = "done")

====
